---- MODULE Spec2Model ----
(***************************************************************************)
(* Model of scripts/feedgen.py: the fetch / parse / de-dupe / sort /       *)
(* truncate / render pipeline of main(), with the helpers it calls.        *)
(*                                                                         *)
(* Representation.                                                         *)
(*  - A text (title, link, description, ...) is a sequence of one-         *)
(*    character strings, so that strip(), the regular expressions and the  *)
(*    digest input are computed character by character.                    *)
(*  - A date string is a record of the facts the code tests on it: whether *)
(*    it is blank, whether it has a comma and one of "GMT", "+", "-"       *)
(*    (rfcish), the instant datetime.fromisoformat gives it (iso) and the  *)
(*    instant email.utils.parsedate_to_datetime gives it (rfc); NoVal      *)
(*    where the parser raises.                                             *)
(*  - An instant is a whole number of seconds; Epoch is 1970-01-01.        *)
(*  - SHA-256 is taken to be collision free: the digest is modelled by the *)
(*    byte string fed to it.                                               *)
(*  - An element tree is modelled by what the find calls of the parsers    *)
(*    see of it: the entry children of an Atom root with, per entry, the   *)
(*    text of the first child of each name and the link children; the item *)
(*    elements below the first channel of an RSS tree with the text of the *)
(*    first child of each local name.                                      *)
(*                                                                         *)
(* Spec is a run of main().  SpecAtom, SpecClean and SpecDate apply        *)
(* parse_atom, clean_html and the two date conversions to inputs drawn     *)
(* from bounded sets.                                                      *)
(***************************************************************************)
EXTENDS Integers, Sequences, FiniteSets, TLC

\* ---------------------------------------------------------------- bounds
NumSources == 2
MaxNow == 4
MaxEntries == 2
MaxLinks == 2
MaxToks == 3

\* ------------------------------------------------------ program constants
ExcerptMax == 300
DefaultMaxTotal == 120
Epoch == 0

NoVal == -1
None == <<"None">>

Min(a, b) == IF a < b THEN a ELSE b
Max(a, b) == IF a > b THEN a ELSE b

\* ---------------------------------------------------------------- helpers
IsSpace(c) == c \in {" ", "\n", "\t"}

RECURSIVE LStrip(_)
LStrip(s) ==
    IF s = <<>> THEN <<>>
    ELSE IF IsSpace(Head(s)) THEN LStrip(Tail(s)) ELSE s

RECURSIVE RStrip(_)
RStrip(s) ==
    IF s = <<>> THEN <<>>
    ELSE IF IsSpace(s[Len(s)]) THEN RStrip(SubSeq(s, 1, Len(s) - 1)) ELSE s

\* str.strip()
Strip(s) == RStrip(LStrip(s))

\* safe_text: None becomes "", anything else is stripped
safe_text(s) == IF s = None THEN <<>> ELSE Strip(s)

\* hash_id(guid, link): the bytes fed to the digest, each part followed by
\* a newline, None taken as "".
hash_id(guid, link) ==
    (IF guid = None THEN <<>> ELSE guid) \o <<"\n">> \o
    (IF link = None THEN <<>> ELSE link) \o <<"\n">>

\* ------------------------------------------------------------------ dates
NoneDate == [kind |-> "none", blank |-> TRUE, rfcish |-> FALSE, iso |-> NoVal, rfc |-> NoVal]
BlankDate == [kind |-> "str", blank |-> TRUE, rfcish |-> FALSE, iso |-> NoVal, rfc |-> NoVal]

\* email.utils.format_datetime(d): "Thu, 03 Oct 2024 08:00:00 +0000"
format_datetime(t) ==
    [kind |-> "str", blank |-> FALSE, rfcish |-> TRUE, iso |-> NoVal, rfc |-> t]

utc_now_rfc2822(clock) == format_datetime(clock)

to_rfc2822(s) ==
    IF s.kind = "none" \/ s.blank THEN NoneDate
    ELSE IF s.rfcish THEN s
    ELSE IF s.iso # NoVal THEN format_datetime(s.iso)
    ELSE NoneDate

parse_rfc2822_to_dt(s) ==
    IF s.kind = "str" /\ ~s.blank /\ s.rfc # NoVal THEN s.rfc ELSE Epoch

\* `a or b` on an optional date string
OrDate(a, b) == IF a.kind = "none" \/ a.blank THEN b ELSE a

\* ------------------------------------------------------------- clean_html
\* html.unescape(text), for the references the model's alphabet can spell:
\* the named references lt, gt and amp (with or without the semicolon, and
\* as the longest known prefix of a longer name) and decimal references.
IsDigit(c) == c \in {"0", "1", "2", "3", "4", "5", "6", "7", "8", "9"}
DigitVal(c) ==
    CASE c = "0" -> 0 [] c = "1" -> 1 [] c = "2" -> 2 [] c = "3" -> 3
      [] c = "4" -> 4 [] c = "5" -> 5 [] c = "6" -> 6 [] c = "7" -> 7
      [] c = "8" -> 8 [] OTHER -> 9

IsNameChar(c) == c \notin {"\t", "\n", " ", "<", "&", "#", ";"}

Named ==
    {<<"l", "t">>, <<"l", "t", ";">>, <<"g", "t">>, <<"g", "t", ";">>,
     <<"a", "m", "p">>, <<"a", "m", "p", ";">>}

EntityVal(name) ==
    IF name[1] = "l" THEN "<" ELSE IF name[1] = "g" THEN ">" ELSE "&"

\* chr(num) for the code points the model distinguishes
CharOf(num) ==
    IF num = 60 THEN "<" ELSE IF num = 62 THEN ">"
    ELSE IF num = 38 THEN "&" ELSE "?"

\* last index of the run of characters satisfying the class that starts at
\* i (i - 1 when the run is empty), the run at most lim long
RECURSIVE RunEnd(_, _, _, _)
RunEnd(s, i, lim, digits) ==
    IF lim = 0 \/ i > Len(s) THEN i - 1
    ELSE IF (IF digits THEN IsDigit(s[i]) ELSE IsNameChar(s[i]))
         THEN RunEnd(s, i + 1, lim - 1, digits)
         ELSE i - 1

RECURSIVE DecVal(_, _, _)
DecVal(s, i, k) ==
    IF i > k THEN 0 ELSE DecVal(s, i, k - 1) * 10 + DigitVal(s[k])

\* replacement of the named reference whose text after "&" is g
ReplaceNamed(g) ==
    IF g \in Named THEN <<EntityVal(g)>>
    ELSE LET X == {x \in 2..(Len(g) - 1) : SubSeq(g, 1, x) \in Named}
         IN  IF X = {} THEN <<"&">> \o g
             ELSE LET x == CHOOSE y \in X : \A z \in X : z <= y
                  IN  <<EntityVal(g)>> \o SubSeq(g, x + 1, Len(g))

\* index of the first character of s at or after k that is in C, 0 when
\* there is none
NextIn(s, k, C) ==
    LET G == {j \in k..Len(s) : s[j] \in C}
    IN  IF G = {} THEN 0 ELSE CHOOSE j \in G : \A h \in G : j <= h

\* the text from i on, the references in it replaced; i is at an "&"
RECURSIVE UnescapeAt(_, _)
\* the text from i on, the references in it replaced
UnescapeFrom(s, i) ==
    LET a == NextIn(s, i, {"&"})
    IN  IF a = 0 THEN SubSeq(s, i, Len(s))
        ELSE SubSeq(s, i, a - 1) \o UnescapeAt(s, a)

UnescapeAt(s, i) ==
    IF i < Len(s) /\ s[i + 1] = "#"
    THEN LET k == RunEnd(s, i + 2, Len(s), TRUE)
             e == IF k < Len(s) /\ s[k + 1] = ";" THEN k + 1 ELSE k
         IN  IF k < i + 2 THEN <<"&">> \o UnescapeFrom(s, i + 1)
             ELSE <<CharOf(DecVal(s, i + 2, k))>> \o UnescapeFrom(s, e + 1)
    ELSE LET k == RunEnd(s, i + 1, 32, FALSE)
             e == IF k < Len(s) /\ s[k + 1] = ";" THEN k + 1 ELSE k
         IN  IF k < i + 1 THEN <<"&">> \o UnescapeFrom(s, i + 1)
             ELSE ReplaceNamed(SubSeq(s, i + 1, e)) \o UnescapeFrom(s, e + 1)

unescape(s) == UnescapeFrom(s, 1)

\* re.sub(r"<[^>]+>", " ", s): leftmost non-overlapping matches. A match
\* starts at a "<" whose next ">" is at least two characters on.
RECURSIVE StripTagsFrom(_, _)
StripTagsFrom(s, i) ==
    LET a == NextIn(s, i, {"<"})
        g == IF a = 0 THEN 0 ELSE NextIn(s, a + 1, {">"})
    IN  IF a = 0 THEN SubSeq(s, i, Len(s))
        ELSE IF g > a + 1
             THEN SubSeq(s, i, a - 1) \o <<" ">> \o StripTagsFrom(s, g + 1)
             ELSE SubSeq(s, i, a) \o StripTagsFrom(s, a + 1)

StripTags(s) == StripTagsFrom(s, 1)

\* re.sub(r"\s+", " ", s)
RECURSIVE CollapseFrom(_, _)
CollapseFrom(s, i) ==
    LET a == NextIn(s, i, {" ", "\n", "\t"})
    IN  IF a = 0 THEN SubSeq(s, i, Len(s))
        ELSE SubSeq(s, i, a - 1) \o
             (IF a > 1 /\ IsSpace(s[a - 1]) THEN <<>> ELSE <<" ">>) \o
             CollapseFrom(s, a + 1)

CollapseWs(s) == CollapseFrom(s, 1)

\* str.lower(), for the letters of the model's alphabet
Lower(c) ==
    CASE c = "I" -> "i" [] c = "M" -> "m" [] c = "G" -> "g" [] c = "S" -> "s"
      [] c = "R" -> "r" [] c = "C" -> "c" [] c = "P" -> "p" [] c = "N" -> "n"
      [] OTHER -> c

\* s has the lower-case pattern pat at i, letter case ignored
MatchAt(s, i, pat) ==
    /\ i + Len(pat) - 1 <= Len(s)
    /\ \A k \in 1..Len(pat) : Lower(s[i + k - 1]) = pat[k]

Quotes == {"\"", "'"}

\* the places where `src=`, a quote, a non-empty run without quotes and a
\* quote follow, after "<img" at i and at least one character, none of
\* them ">"
SrcPlaces(s, i) ==
    {j \in (i + 5)..Len(s) :
        /\ MatchAt(s, j, <<"s", "r", "c", "=">>)
        /\ \A k \in (i + 4)..(j - 1) : s[k] # ">"
        /\ j + 4 <= Len(s)
        /\ s[j + 4] \in Quotes
        /\ NextIn(s, j + 5, Quotes) > j + 5}

\* re.search(r'<img[^>]+src=["\']([^"\']+)["\']', raw, flags=re.I): the
\* group of the leftmost match, [^>]+ taking as much as it can; None
\* when nothing matches
first_image(s) ==
    LET I == {i \in 1..Len(s) :
                 MatchAt(s, i, <<"<", "i", "m", "g">>) /\ SrcPlaces(s, i) # {}}
    IN  IF I = {} THEN None
        ELSE LET i == CHOOSE a \in I : \A b \in I : a <= b
                 j == CHOOSE a \in SrcPlaces(s, i) : \A b \in SrcPlaces(s, i) : b <= a
             IN  SubSeq(s, j + 5, NextIn(s, j + 5, Quotes) - 1)

\* clean_html(text): <<clean_text, first_image_url>>
clean_html(text) ==
    IF text = <<>> THEN <<<<>>, None>>
    ELSE LET raw == unescape(text)
             clean == Strip(CollapseWs(StripTags(StripTags(raw))))
         IN  <<SubSeq(clean, 1, Min(ExcerptMax, Len(clean))), first_image(raw)>>

EndsWith(u, suffix) ==
    /\ Len(u) >= Len(suffix)
    /\ \A k \in 1..Len(suffix) : Lower(u[Len(u) - Len(suffix) + k]) = suffix[k]

guess_image_mime(url) ==
    IF EndsWith(url, <<".", "p", "n", "g">>) THEN "image/png"
    ELSE IF EndsWith(url, <<".", "w", "e", "b", "p">>) THEN "image/webp"
    ELSE IF EndsWith(url, <<".", "g", "i", "f">>) THEN "image/gif"
    ELSE IF EndsWith(url, <<".", "s", "v", "g">>) THEN "image/svg+xml"
    ELSE "image/jpeg"

\* ---------------------------------------------------------------- parsing
\* An Atom document is its sequence of {ns}entry children; an entry is
\*   [title, links, published, updated, summary, content, id]
\* where title, summary, content and id are the text of the first child of
\* that name (None when there is no such child), published and updated are
\* date strings (BlankDate when absent), and links is the sequence of its
\* link children, each [rel, href] with rel "absent" when the attribute is
\* missing and href None when the attribute is missing.
\* An RSS document is [channel, items]: whether some element has the local
\* name channel, and the item elements below the first one, each
\*   [title, link, pubDate, description, encoded, guid].

Truthy(t) == t # None /\ t # <<>>

\* the fallback to the clock forgotten
pub_rfc_of_no_fallback(published, clock) == to_rfc2822(published)

\* pub_rfc = to_rfc2822(published) or utc_now_rfc2822()
pub_rfc_of(published, clock) ==
    OrDate(to_rfc2822(published), utc_now_rfc2822(clock))

\* the first loop over the links: rel (default "alternate") is "alternate"
\* and href is non-empty
RECURSIVE FirstAlternate(_)
FirstAlternate(links) ==
    IF links = <<>> THEN <<>>
    ELSE IF Head(links).rel \in {"absent", "alternate"} /\ Truthy(Head(links).href)
         THEN Head(links).href
         ELSE FirstAlternate(Tail(links))

atom_link(entry) ==
    LET link == FirstAlternate(entry.links)
    IN  IF link # <<>> THEN link
        ELSE IF entry.links # <<>> /\ Truthy(entry.links[1].href)
             THEN entry.links[1].href
             ELSE <<>>

\* the source's id element taken as the guid
atom_guid_from_id(entry, link) == safe_text(entry.id)

atom_guid(entry, link) == link

atom_item(entry, source_name, clock) ==
    LET link == atom_link(entry)
        published == OrDate(entry.published, entry.updated)
        summary == safe_text(entry.summary)
        content == safe_text(entry.content)
    IN  [title |-> safe_text(entry.title),
         link |-> link,
         guid |-> atom_guid(entry, link),
         pubDate |-> pub_rfc_of(published, clock),
         description |-> IF summary # <<>> THEN summary ELSE content,
         source |-> source_name]

\* `if title:` instead of `if title and link:`
atom_keep_title_only(title, link) == title # <<>>

atom_keep(title, link) == title # <<>> /\ link # <<>>

RECURSIVE parse_atom(_, _, _)
parse_atom(entries, source_name, clock) ==
    IF entries = <<>> THEN <<>>
    ELSE LET it == atom_item(Head(entries), source_name, clock)
         IN  (IF atom_keep(it.title, it.link) THEN <<it>> ELSE <<>>)
             \o parse_atom(Tail(entries), source_name, clock)

rss_guid(item, link) == link

rss_item(item, source_name, clock) ==
    LET link == safe_text(item.link)
        desc == safe_text(item.description)
    IN  [title |-> safe_text(item.title),
         link |-> link,
         guid |-> rss_guid(item, link),
         pubDate |-> pub_rfc_of(item.pubDate, clock),
         description |-> IF desc # <<>> THEN desc ELSE safe_text(item.encoded),
         source |-> source_name]

RECURSIVE rss_items(_, _, _)
rss_items(items, source_name, clock) ==
    IF items = <<>> THEN <<>>
    ELSE LET it == rss_item(Head(items), source_name, clock)
         IN  (IF it.title # <<>> /\ it.link # <<>> THEN <<it>> ELSE <<>>)
             \o rss_items(Tail(items), source_name, clock)

parse_rss(root, source_name, clock) ==
    IF ~root.channel THEN <<>> ELSE rss_items(root.items, source_name, clock)

\* parse_rss_or_atom on the tree ET.fromstring returned
parse_rss_or_atom(root, source_name, clock) ==
    IF root.kind = "feed" THEN parse_atom(root.entries, source_name, clock)
    ELSE parse_rss(root, source_name, clock)

\* ------------------------------------------------- de-dupe, sort, truncate
Keys(items) == {hash_id(items[i].guid, items[i].link) : i \in 1..Len(items)}

\* the key compared with the last kept item's key only
dedupe_keep_adjacent(it, uniq) ==
    uniq = <<>> \/ hash_id(it.guid, it.link) #
                     hash_id(uniq[Len(uniq)].guid, uniq[Len(uniq)].link)

dedupe_keep(it, uniq) == hash_id(it.guid, it.link) \notin Keys(uniq)

\* the loop of lines 303-310, run over items[1..n]
RECURSIVE DedupeUpTo(_, _)
DedupeUpTo(items, n) ==
    IF n = 0 THEN <<>>
    ELSE LET uniq == DedupeUpTo(items, n - 1)
         IN  IF dedupe_keep(items[n], uniq) THEN Append(uniq, items[n]) ELSE uniq

\* duplicates removed from the list while the loop iterates over it, so the
\* item after a removed one is skipped
RECURSIVE InPlaceFrom(_, _, _)
InPlaceFrom(items, i, seen) ==
    IF i > Len(items) THEN items
    ELSE IF hash_id(items[i].guid, items[i].link) \in seen
         THEN InPlaceFrom(SubSeq(items, 1, i - 1) \o SubSeq(items, i + 1, Len(items)),
                          i + 1, seen)
         ELSE InPlaceFrom(items, i + 1,
                          seen \cup {hash_id(items[i].guid, items[i].link)})

dedupe_in_place(items) == InPlaceFrom(items, 1, {})

dedupe(items) == DedupeUpTo(items, Len(items))

sort_key(x) == parse_rfc2822_to_dt(x.pubDate)

\* where list.sort(key=..., reverse=True) puts x among the already sorted
\* items that preceded it: after every item whose key is not smaller
\* ties put the later item first, as sorting ascending and reversing does
sort_before_strict(a, x) == parse_rfc2822_to_dt(a.pubDate) > parse_rfc2822_to_dt(x.pubDate)

sort_before(a, x) == sort_key(a) >= sort_key(x)

RECURSIVE InsertDesc(_, _)
InsertDesc(sorted, x) ==
    IF sorted = <<>> THEN <<x>>
    ELSE IF sort_before(Head(sorted), x)
         THEN <<Head(sorted)>> \o InsertDesc(Tail(sorted), x)
         ELSE <<x>> \o sorted

RECURSIVE SortUpTo(_, _)
SortUpTo(items, n) ==
    IF n = 0 THEN <<>> ELSE InsertDesc(SortUpTo(items, n - 1), items[n])

sort_desc(items) == SortUpTo(items, Len(items))

\* items[:n] with Python's slice semantics
truncate(items, n) ==
    IF n >= 0 THEN SubSeq(items, 1, Min(n, Len(items)))
    ELSE SubSeq(items, 1, Max(0, Len(items) + n))

\* ----------------------------------------------------------------- render
render_guid(x, link) == link

NoEnclosure == [url |-> None, type |-> "none"]

render_item(x) ==
    LET link == safe_text(x.link)
        cleaned == clean_html(safe_text(x.description))
        clean_desc == cleaned[1]
        image_url == cleaned[2]
        source == safe_text(x.source)
    IN  [title |-> safe_text(x.title),
         link |-> link,
         guid |-> render_guid(x, link),
         pubDate |-> x.pubDate,
         description |-> IF source # <<>>
                         THEN <<"[">> \o source \o <<"]", " ">> \o clean_desc
                         ELSE clean_desc,
         enclosure |-> IF Truthy(image_url)
                       THEN [url |-> image_url, type |-> guess_image_mime(image_url)]
                       ELSE NoEnclosure]

build_rss(config, items, clock) ==
    [title |-> safe_text(config.title),
     link |-> safe_text(config.site_url),
     lastBuildDate |-> utc_now_rfc2822(clock),
     self |-> safe_text(config.feed_url),
     items |-> [i \in 1..Len(items) |-> render_item(items[i])]]

\* ------------------------------------------------------------ the inputs
U1 == <<"u">>
U1sp == <<" ", "u">>
U2 == <<"v">>
U3 == <<"w">>
\* <IMG src='a.pn
ImgTag == <<"<", "I", "M", "G", " ", "s", "r", "c", "=", "'", "a", ".", "p", "n">>

IsoDate(t) == [kind |-> "str", blank |-> FALSE, rfcish |-> FALSE, iso |-> t, rfc |-> NoVal]
\* "Wed, 02 Oct 2024 10:00:00 GMT"
RfcDate(t) == [kind |-> "str", blank |-> FALSE, rfcish |-> TRUE, iso |-> NoVal, rfc |-> t]
\* "not-a-date"
JunkDate == [kind |-> "str", blank |-> FALSE, rfcish |-> FALSE, iso |-> NoVal, rfc |-> NoVal]
\* "soon, maybe-later": a comma and a "-", and no date
JunkRfcish == [kind |-> "str", blank |-> FALSE, rfcish |-> TRUE, iso |-> NoVal, rfc |-> NoVal]

Entry(title, links, published, summary, id) ==
    [title |-> title, links |-> links, published |-> published,
     updated |-> BlankDate, summary |-> summary, content |-> None, id |-> id]

RssItem(title, link, pubDate, description, guid) ==
    [title |-> title, link |-> link, pubDate |-> pubDate,
     description |-> description, encoded |-> None, guid |-> guid]

Link(rel, href) == [rel |-> rel, href |-> href]

AtomDoc(entries) == [kind |-> "feed", channel |-> FALSE, entries |-> entries, items |-> <<>>]
RssDoc(channel, items) == [kind |-> "rss", channel |-> channel, entries |-> <<>>, items |-> items]

\* The documents a source may answer with.
FeedDocs ==
    { \* one entry, title "A", link u, no date
      AtomDoc(<<Entry(<<"A">>, <<Link("absent", U1)>>, BlankDate, None, <<"i">>)>>),
      \* one item with the same link and another guid
      RssDoc(TRUE, <<RssItem(<<"B">>, U1, BlankDate, <<"a", "<", "b">>, <<"g">>)>>),
      \* the link's href has a leading blank; an entry without a link
      AtomDoc(<<Entry(<<"C">>, <<Link("self", None), Link("alternate", U1sp)>>,
                      IsoDate(2), <<"<", "p", ">", "h">> \o ImgTag \o <<"g", "'", ">">>, <<"i">>),
                Entry(<<"D">>, <<Link("self", None)>>, IsoDate(2), None, None)>>),
      \* two items published at the same instant
      RssDoc(TRUE, <<RssItem(<<"E">>, U2, RfcDate(1), None, None),
                     RssItem(<<"F">>, U3, IsoDate(1), None, U2)>>),
      \* dates that are no dates
      RssDoc(TRUE, <<RssItem(<<"G">>, U3, JunkRfcish, None, None),
                     RssItem(<<"H">>, U2, JunkDate, None, None)>>),
      \* no channel element
      RssDoc(FALSE, <<>>) }

\* What the try block of main() can raise: the classes the except clause
\* names, and two it does not name (a read that times out in get(), and
\* ET.fromstring on bytes that declare an unknown encoding).
Caught == {"HTTPError", "URLError", "ParseError"}
Uncaught == {"TimeoutError", "LookupError"}

SourceCfgs ==
    { [name |-> <<"S">>, url |-> <<"h">>],
      [name |-> <<" ">>, url |-> <<" ", "h">>],
      [name |-> <<"T">>, url |-> <<" ">>] }

MaxTotals == {2, 1, 0, -1}

ConfigOf(has_max, m, ss) ==
    [title |-> <<"N">>, site_url |-> <<"s">>, feed_url |-> <<>>,
     has_max |-> has_max, max_items_total |-> m, sources |-> ss]

\* sources.json with and without the max_items_total key
Configs ==
    {ConfigOf(TRUE, m, ss) : m \in MaxTotals, ss \in [1..NumSources -> SourceCfgs]}
    \cup {ConfigOf(FALSE, 0, ss) : ss \in [1..NumSources -> SourceCfgs]}

\* ------------------------------------------------------------------ state
VARIABLES
    cfg,        \* the configuration json.load returned
    pc,         \* where main() is: "loop", "done", or "aborted" by an exception
    idx,        \* number of sources the loop is done with
    now,        \* the clock
    all_items,  \* items collected so far
    ok_sources, \* sources that yielded at least one item
    warned,     \* [WARN] lines written to stderr
    deduped,    \* uniq after the de-dupe loop
    sorted,     \* uniq after the sort
    uniq,       \* uniq after the truncation
    out,        \* the document build_rss made
    \* parse_atom applied to a document under construction
    a_entries, a_items, a_pc,
    \* clean_html applied to a text under construction
    c_text, c_out, c_pc,
    \* one date string through to_rfc2822 and parse_rfc2822_to_dt
    d_raw, d_now, d_pub, d_inst, d_pc

pipeVars == <<cfg, pc, idx, now, all_items, ok_sources, warned, deduped, sorted, uniq, out>>
atomVars == <<a_entries, a_items, a_pc>>
cleanVars == <<c_text, c_out, c_pc>>
dateVars == <<d_raw, d_now, d_pub, d_inst, d_pc>>
vars == <<pipeVars, atomVars, cleanVars, dateVars>>

NoOut == [title |-> <<>>, link |-> <<>>, lastBuildDate |-> NoneDate,
          self |-> <<>>, items |-> <<>>]

\* int(cfg.get("max_items_total", 120))
max_total == IF cfg.has_max THEN cfg.max_items_total ELSE DefaultMaxTotal

PipeIdle ==
    /\ cfg = ConfigOf(FALSE, 0, [i \in 1..NumSources |-> CHOOSE c \in SourceCfgs : TRUE])
    /\ pc = "idle"
    /\ idx = 0
    /\ now = 3
    /\ all_items = <<>>
    /\ ok_sources = 0
    /\ warned = 0
    /\ deduped = <<>>
    /\ sorted = <<>>
    /\ uniq = <<>>
    /\ out = NoOut

AtomIdle == a_entries = <<>> /\ a_items = <<>> /\ a_pc = "idle"
CleanIdle == c_text = <<>> /\ c_out = <<<<>>, None>> /\ c_pc = "idle"
DateIdle ==
    d_raw = BlankDate /\ d_now = 0 /\ d_pub = NoneDate /\ d_inst = 0 /\ d_pc = "idle"

Init ==
    /\ cfg \in Configs
    /\ pc = "loop"
    /\ idx = 0
    /\ now = 3
    /\ all_items = <<>>
    /\ ok_sources = 0
    /\ warned = 0
    /\ deduped = <<>>
    /\ sorted = <<>>
    /\ uniq = <<>>
    /\ out = NoOut
    /\ AtomIdle /\ CleanIdle /\ DateIdle

src == cfg.sources[idx + 1]
name == IF safe_text(src.name) # <<>> THEN safe_text(src.name)
        ELSE <<"S", "o", "u", "r", "c", "e">>

InLoop == pc = "loop" /\ idx < NumSources

\* if not url: continue
SkipSource ==
    /\ InLoop
    /\ safe_text(src.url) = <<>>
    /\ idx' = idx + 1
    /\ UNCHANGED <<cfg, pc, now, all_items, ok_sources, warned, deduped, sorted, uniq, out>>
    /\ UNCHANGED <<atomVars, cleanVars, dateVars>>

\* get() and parse_rss_or_atom() return; time may pass meanwhile
SourceOk ==
    /\ InLoop
    /\ safe_text(src.url) # <<>>
    /\ \E root \in FeedDocs, dt \in {0, 1} :
          /\ now + dt <= MaxNow
          /\ now' = now + dt
          /\ LET items == parse_rss_or_atom(root, name, now')
             IN  /\ all_items' = all_items \o items
                 /\ ok_sources' = IF items # <<>> THEN ok_sources + 1 ELSE ok_sources
    /\ idx' = idx + 1
    /\ UNCHANGED <<cfg, pc, warned, deduped, sorted, uniq, out>>
    /\ UNCHANGED <<atomVars, cleanVars, dateVars>>

\* get() or ET.fromstring raises what the except clause names
SourceFailed ==
    /\ InLoop
    /\ safe_text(src.url) # <<>>
    /\ \E e \in Caught : warned' = warned + 1
    /\ idx' = idx + 1
    /\ UNCHANGED <<cfg, pc, now, all_items, ok_sources, deduped, sorted, uniq, out>>
    /\ UNCHANGED <<atomVars, cleanVars, dateVars>>

\* get() or ET.fromstring raises anything else: main() is left
SourceCrashed ==
    /\ InLoop
    /\ safe_text(src.url) # <<>>
    /\ \E e \in Uncaught : pc' = "aborted"
    /\ UNCHANGED <<cfg, idx, now, all_items, ok_sources, warned, deduped, sorted, uniq, out>>
    /\ UNCHANGED <<atomVars, cleanVars, dateVars>>

\* lines 302-318: de-dupe, sort, truncate, render
Finish ==
    /\ pc = "loop"
    /\ idx = NumSources
    /\ deduped' = dedupe(all_items)
    /\ sorted' = sort_desc(deduped')
    /\ uniq' = truncate(sorted', max_total)
    /\ out' = build_rss(cfg, uniq', now)
    /\ pc' = "done"
    /\ UNCHANGED <<cfg, idx, now, all_items, ok_sources, warned>>
    /\ UNCHANGED <<atomVars, cleanVars, dateVars>>

Next == SkipSource \/ SourceOk \/ SourceFailed \/ SourceCrashed \/ Finish

Spec == Init /\ [][Next]_vars

\* ------------------------------------------------ parse_atom on its own
LinkSet ==
    {Link(r, h) : r \in {"absent", "alternate", "self"}, h \in {None, U1, U2}}
    \cup {Link("alternate", <<>>), Link("alternate", <<" ">>)}

TitleSet == {None, <<" ">>, <<"A", " ">>}

LinkCount(entries) ==
    LET RECURSIVE Sum(_)
        Sum(n) == IF n = 0 THEN 0 ELSE Sum(n - 1) + Len(entries[n].links)
    IN  Sum(Len(entries))

AtomInit == PipeIdle /\ CleanIdle /\ DateIdle
            /\ a_entries = <<>> /\ a_items = <<>> /\ a_pc = "build"

\* the document gets one more entry
AtomAddEntry ==
    /\ a_pc = "build"
    /\ Len(a_entries) < MaxEntries
    /\ \E t \in TitleSet :
          a_entries' = Append(a_entries, Entry(t, <<>>, BlankDate, None, <<"i">>))
    /\ UNCHANGED <<a_items, a_pc, pipeVars, cleanVars, dateVars>>

\* the last entry gets one more link element
AtomAddLink ==
    /\ a_pc = "build"
    /\ a_entries # <<>>
    /\ LinkCount(a_entries) < MaxLinks
    /\ \E l \in LinkSet :
          LET n == Len(a_entries)
          IN  a_entries' = [a_entries EXCEPT ![n].links = Append(@, l)]
    /\ UNCHANGED <<a_items, a_pc, pipeVars, cleanVars, dateVars>>

AtomParse ==
    /\ a_pc = "build"
    /\ a_items' = parse_atom(a_entries, <<"S">>, now)
    /\ a_pc' = "parsed"
    /\ UNCHANGED <<a_entries, pipeVars, cleanVars, dateVars>>

AtomNext == AtomAddEntry \/ AtomAddLink \/ AtomParse

SpecAtom == AtomInit /\ [][AtomNext]_vars

\* ------------------------------------------------ clean_html on its own
\* The pieces a text is put together from.
Pieces ==
    { <<"<">>, <<">">>, <<" ">>, <<"p">>,
      <<"&", "l", "t", ";">>, <<"&", "g", "t", ";">>, <<"&", "a", "m", "p", ";">>,
      <<"l", "t", ";">>, <<"&", "l", "t">>, <<"&", "#", "6", "2", ";">>,
      ImgTag, <<"g", "'", ">">> }

\* a piece longer than the excerpt may be
Filler == [i \in 1..(ExcerptMax + 1) |-> "p"]

RECURSIVE Concat(_)
Concat(pieces) ==
    IF pieces = <<>> THEN <<>> ELSE Head(pieces) \o Concat(Tail(pieces))

CleanInit == PipeIdle /\ AtomIdle /\ DateIdle
             /\ c_text = <<>> /\ c_out = <<<<>>, None>> /\ c_pc = "build"

\* c_text is the text as the sequence of its pieces
CleanAppend ==
    /\ c_pc = "build"
    /\ Len(c_text) < MaxToks
    /\ \E piece \in Pieces \cup {Filler} :
          /\ piece = Filler => c_text = <<>>
          /\ c_text' = Append(c_text, piece)
    /\ UNCHANGED <<c_out, c_pc, pipeVars, atomVars, dateVars>>

CleanRun ==
    /\ c_pc = "build"
    /\ c_out' = clean_html(Concat(c_text))
    /\ c_pc' = "cleaned"
    /\ UNCHANGED <<c_text, pipeVars, atomVars, dateVars>>

CleanNext == CleanAppend \/ CleanRun

SpecClean == CleanInit /\ [][CleanNext]_vars

\* ------------------------------------------- date normalisation on its own
Instants == {NoVal} \cup 0..2

DateStrs ==
    {BlankDate} \cup
    {[kind |-> "str", blank |-> FALSE, rfcish |-> r, iso |-> i, rfc |-> f] :
        r \in BOOLEAN, i \in Instants, f \in Instants}

DateInit == PipeIdle /\ AtomIdle /\ CleanIdle
            /\ d_raw \in DateStrs /\ d_now \in 1..MaxNow
            /\ d_pub = NoneDate /\ d_inst = 0 /\ d_pc = "raw"

\* the parser's `to_rfc2822(pub) or utc_now_rfc2822()`
DateNormalise ==
    /\ d_pc = "raw"
    /\ d_pub' = pub_rfc_of(d_raw, d_now)
    /\ d_pc' = "item"
    /\ UNCHANGED <<d_raw, d_now, d_inst, pipeVars, atomVars, cleanVars>>

\* the sort key of line 313
DateKey ==
    /\ d_pc = "item"
    /\ d_inst' = sort_key([pubDate |-> d_pub])
    /\ d_pc' = "keyed"
    /\ UNCHANGED <<d_raw, d_now, d_pub, pipeVars, atomVars, cleanVars>>

DateNext == DateNormalise \/ DateKey

SpecDate == DateInit /\ [][DateNext]_vars

\* ================================================================ claims
KeyOf(it) == hash_id(it.guid, it.link)
ItemsOf(seq) == {seq[i] : i \in 1..Len(seq)}
\* the k-th smallest element of a set of numbers
NthOf(S, k) == CHOOSE i \in S : Cardinality({j \in S : j <= i}) = k
\* the positions of a sequence whose identity key no earlier position has
FirstSeen(items) ==
    {i \in 1..Len(items) : \A j \in 1..(i - 1) : KeyOf(items[j]) # KeyOf(items[i])}

\* C1: whatever way a source's fetch-and-parse step fails, the run is not
\* aborted: the loop goes on to every later source and the run reaches the
\* de-dupe / sort / render step with every source visited.
C1_RunNeverAborted ==
    /\ pc # "aborted"
    /\ pc = "done" => idx = NumSources

\* C2: the de-dupe step keeps, in first-seen order, exactly the earliest
\* item of every identity key of the collected sequence, so no two kept
\* items have the same key.
C2_DedupeKeepsFirst ==
    pc = "done" =>
        /\ Len(deduped) = Cardinality(FirstSeen(all_items))
        /\ \A k \in 1..Len(deduped) :
              deduped[k] = all_items[NthOf(FirstSeen(all_items), k)]
        /\ \A a, b \in 1..Len(deduped) :
              a # b => KeyOf(deduped[a]) # KeyOf(deduped[b])

\* a run in which the de-dupe step dropped an item and kept several
C2_Witness ==
    pc = "done" /\ Len(deduped) >= 2 /\ Len(deduped) < Len(all_items)

\* C3: no two rendered item elements carry the same link text.
C3_OneItemPerLink ==
    pc = "done" =>
        \A i, j \in 1..Len(out.items) :
            i # j => out.items[i].link # out.items[j].link

\* C4: after the sort the items are the de-duplicated ones, newest first by
\* published instant, and items of equal instant are in the order they had
\* before the sort.
PosIn(seq, x) == CHOOSE k \in 1..Len(seq) : seq[k] = x

C4_SortStableDescending ==
    pc = "done" =>
        /\ Len(sorted) = Len(deduped)
        /\ ItemsOf(sorted) = ItemsOf(deduped)
        /\ \A i, j \in 1..Len(sorted) :
              i < j =>
                /\ sort_key(sorted[i]) >= sort_key(sorted[j])
                /\ sort_key(sorted[i]) = sort_key(sorted[j])
                     => PosIn(deduped, sorted[i]) < PosIn(deduped, sorted[j])

\* a run whose sort moved an item and met two items of equal instant
C4_Witness ==
    /\ pc = "done"
    /\ sorted # deduped
    /\ \E i, j \in 1..Len(sorted) :
          i < j /\ sort_key(sorted[i]) = sort_key(sorted[j])

\* C5: for every integer max_items_total the rendered document holds at
\* most max_items_total items, the first ones of the sorted sequence.
C5_AtMostMaxTotal ==
    pc = "done" =>
        /\ Len(out.items) <= max_total
        /\ \A k \in 1..Len(out.items) : out.items[k] = render_item(sorted[k])

\* C6 as claimed: an item whose source date string is blank or is no date
\* is ordered at the current processing time, never at the epoch.
C6_UnparseableIsNow ==
    (d_pc = "keyed" /\ (d_raw.blank \/ (d_raw.iso = NoVal /\ d_raw.rfc = NoVal)))
        => (d_inst = d_now /\ d_inst # Epoch)

\* C6 as amended: an item whose source date string is blank, or has no
\* comma with "GMT", "+" or "-" and is not in ISO 8601, is ordered at the
\* current processing time; a string that has a comma with "GMT", "+" or "-"
\* and is no date is kept as it is and ordered at the epoch.
C6_FallbackByShape ==
    d_pc = "keyed" =>
        /\ (d_raw.blank \/ (~d_raw.rfcish /\ d_raw.iso = NoVal))
              => (d_inst = d_now /\ d_inst # Epoch)
        /\ (~d_raw.blank /\ d_raw.rfcish /\ d_raw.rfc = NoVal)
              => (d_pub = d_raw /\ d_inst = Epoch)

\* "not-a-date" went through both steps and is ordered at the clock's time
C6_Witness ==
    d_pc = "keyed" /\ d_raw = JunkDate /\ d_inst = d_now

\* C7: the excerpt clean_html returns has at most 300 characters and
\* neither "<" nor ">" in it.
C7_ExcerptHasNoAngleBrackets ==
    c_pc = "cleaned" =>
        /\ Len(c_out[1]) <= ExcerptMax
        /\ \A i \in 1..Len(c_out[1]) : c_out[1][i] \notin {"<", ">"}

\* C8: the de-dupe step applied to its own output returns that output.
C8_DedupeIdempotent ==
    pc = "done" => dedupe(deduped) = deduped

\* a run whose de-dupe step dropped something and left something
C8_Witness ==
    pc = "done" /\ deduped # <<>> /\ deduped # all_items

\* C9: every collected item has its guid equal to its link, every rendered
\* item has its guid equal to its rendered link, and the items de-duped,
\* sorted and rendered are collected items, unchanged.
C9_GuidIsLink ==
    /\ \A i \in 1..Len(all_items) : all_items[i].guid = all_items[i].link
    /\ pc = "done" =>
          /\ ItemsOf(uniq) \subseteq ItemsOf(sorted)
          /\ ItemsOf(sorted) \subseteq ItemsOf(deduped)
          /\ ItemsOf(deduped) \subseteq ItemsOf(all_items)
          /\ Len(out.items) = Len(uniq)
          /\ \A k \in 1..Len(out.items) :
                /\ out.items[k].guid = out.items[k].link
                /\ out.items[k].link = Strip(uniq[k].link)

\* a run that rendered an Atom entry and an RSS item whose sources carry
\* an id and a guid of their own
C9_Witness ==
    /\ pc = "done"
    /\ \E i, j \in 1..Len(out.items) :
          out.items[i].title = <<"C">> /\ out.items[j].title = <<"F">>

\* C10: parse_atom yields, in document order, one item for each entry that
\* has a title and a link -- the href of the first link whose rel is
\* alternate or absent and whose href is not empty, else the href of the
\* first link element -- and none for an entry lacking either; every item
\* has a non-empty title and link.
HasHref(l) == l.href # None /\ l.href # <<>>

ClaimedLink(e) ==
    LET A == {i \in 1..Len(e.links) :
                 e.links[i].rel \in {"absent", "alternate"} /\ HasHref(e.links[i])}
    IN  IF A # {} THEN e.links[NthOf(A, 1)].href
        ELSE IF e.links # <<>> /\ HasHref(e.links[1]) THEN e.links[1].href
        ELSE <<>>

ClaimedTitle(e) == IF e.title = None THEN <<>> ELSE Strip(e.title)

Complete(entries) ==
    {i \in 1..Len(entries) :
        ClaimedTitle(entries[i]) # <<>> /\ ClaimedLink(entries[i]) # <<>>}

C10_AtomOneItemPerCompleteEntry ==
    a_pc = "parsed" =>
        /\ Len(a_items) = Cardinality(Complete(a_entries))
        /\ \A k \in 1..Len(a_items) :
              LET e == a_entries[NthOf(Complete(a_entries), k)]
              IN  /\ a_items[k].title = ClaimedTitle(e)
                  /\ a_items[k].link = ClaimedLink(e)
                  /\ a_items[k].title # <<>>
                  /\ a_items[k].link # <<>>

\* a document with an entry that is skipped and an entry whose link is the
\* second link element, the first having another rel
C10_Witness ==
    /\ a_pc = "parsed"
    /\ Len(a_entries) = 2
    /\ Len(a_items) = 1
    /\ a_entries[2].links = <<Link("self", U1), Link("alternate", U2)>>
    /\ a_items[1].link = U2

====
